---- MODULE Spec2Model ----
(***************************************************************************)
(* The `prefect profile` command group (src/src/prefect/cli/profile.py).   *)
(*                                                                         *)
(* Every command is one invocation: it loads the profile document from the *)
(* backing file, transforms it in memory and, when it succeeds and is a    *)
(* mutating command, writes the whole document back.                       *)
(*                                                                         *)
(* A Python dict is modelled as a sequence of <<key, value>> pairs in      *)
(* insertion order.  The loaded document maps a profile name to a          *)
(* reference (an index into `heap`), because `profiles[name]` is a         *)
(* reference to a dict object and `create --from` binds two names to one   *)
(* object.  The backing file holds the document by value.                  *)
(*                                                                         *)
(* Strings that the code parses (the VAR=VAL tokens) are sequences of      *)
(* one-character strings; keys and values are the pieces split() returns.  *)
(***************************************************************************)
EXTENDS Integers, Sequences, FiniteSets, TLC

VARIABLES
    file_exists,  \* whether the backing file exists
    disk,         \* the document in the backing file: <<name, settings>> pairs
    profiles,     \* the loaded document of the last command: <<name, ref>> pairs
    heap,         \* the dict objects of the last command: ref -> settings
    call,         \* the last command and its arguments
    status,       \* how the last command ended: "ok" or the error it reported
    verb,         \* rm's verb ("Removed" / "Reset"), "" for other commands
    output,       \* what get / ls printed (by value)
    pre,          \* the document the last command loaded, by value
    saves,        \* number of write_profiles calls the last command made
    ncmds,        \* number of commands run so far
    inflight      \* concurrent invocations: what each has loaded and computed

vars == <<file_exists, disk, profiles, heap, call, status, verb, output, pre, saves, ncmds, inflight>>

----------------------------------------------------------------------------
(* Bounds *)

MaxCmds == 2        \* commands per behaviour
MaxVars == 2        \* length of the argument list of set / unset / get

Names == {"default", "work", "job"}
NoName == ""        \* an omitted optional argument (None)

\* The names the active profile (PREFECT_PROFILE / -p) is drawn from
CurrentNames == {"default", "work"}

KeyA == <<"A">>
KeyB == <<"B">>
VarKeys == {KeyA, KeyB}

\* VAR=VAL tokens: well formed, without "=", and with two "=".
Tokens ==
    { <<"A", "=", "1">>, <<"A", "=", "2">>, <<"B", "=", "1">>,
      <<"A">>, <<"A", "=", "1", "=", "2">> }

SeqsUpTo(S, n) == UNION { [1..k -> S] : k \in 1..n }

\* The invocations that may run at the same time, and one that has not
\* started
Procs == {"p", "q"}
Idle == [pc |-> "idle"]

----------------------------------------------------------------------------
(* dict operations *)

DictKeys(d) == { d[i][1] : i \in 1..Len(d) }

DictHas(d, k) == \E i \in 1..Len(d) : d[i][1] = k

DictIndex(d, k) == CHOOSE i \in 1..Len(d) : d[i][1] = k

DictGet(d, k) == d[DictIndex(d, k)][2]

\* d[k] = v: overwrite in place, or insert after all existing keys
DictSet(d, k, v) ==
    IF DictHas(d, k) THEN [d EXCEPT ![DictIndex(d, k)] = <<k, v>>]
    ELSE Append(d, <<k, v>>)

\* d.pop(k), k present
DictPop(d, k) ==
    LET j == DictIndex(d, k)
    IN [i \in 1..(Len(d) - 1) |-> IF i < j THEN d[i] ELSE d[i + 1]]

----------------------------------------------------------------------------
(* The profile store: prefect.settings.load_profiles / write_profiles *)

\* A document by value, from a loaded document
Deref(ps, h) == [i \in 1..Len(ps) |-> <<ps[i][1], h[ps[i][2]]>>]

\* load_profiles(): every profile of the file becomes a fresh dict object;
\* a missing file gives {"default": {}}
load_profiles ==
    IF file_exists
    THEN [profiles |-> [i \in 1..Len(disk) |-> <<disk[i][1], i>>],
          heap |-> [i \in 1..Len(disk) |-> disk[i][2]]]
    ELSE [profiles |-> << <<"default", 1>> >>, heap |-> << <<>> >>]

\* write_profiles(profiles): the whole document, serialised by value
write_profiles(mem) == Deref(mem.profiles, mem.heap)

----------------------------------------------------------------------------
(* How a command ends *)

Call(op, name, other, variables, current) ==
    [op |-> op, name |-> name, other |-> other, variables |-> variables,
     current |-> current]

\* inspect's call: the options and the settings the collaborators return
InspectCall(name, current, show_defaults, show_sources, reg) ==
    [op |-> "inspect", name |-> name, other |-> NoName, variables |-> <<>>,
     current |-> current, show_defaults |-> show_defaults,
     show_sources |-> show_sources, registry |-> reg]

\* An exit path that writes the loaded document on its way out
ExitNoSave_flush(c, st, mem, out) ==
    /\ call' = c
    /\ status' = st
    /\ verb' = ""
    /\ output' = out
    /\ profiles' = mem.profiles
    /\ heap' = mem.heap
    /\ pre' = write_profiles(load_profiles)
    /\ saves' = 1
    /\ ncmds' = ncmds + 1
    /\ file_exists' = TRUE
    /\ disk' = write_profiles(mem)
    /\ UNCHANGED inflight

\* The command ends without writing the file (an error exit, or a read-only
\* command): the loaded document is as the command left it.
ExitNoSave(c, st, mem, out) ==
    /\ call' = c
    /\ status' = st
    /\ verb' = ""
    /\ output' = out
    /\ profiles' = mem.profiles
    /\ heap' = mem.heap
    /\ pre' = write_profiles(load_profiles)
    /\ saves' = 0
    /\ ncmds' = ncmds + 1
    /\ UNCHANGED <<file_exists, disk, inflight>>

\* The command writes the document and exits with success.
SaveAndExit(c, vb, mem) ==
    /\ call' = c
    /\ status' = "ok"
    /\ verb' = vb
    /\ output' = <<>>
    /\ profiles' = mem.profiles
    /\ heap' = mem.heap
    /\ pre' = write_profiles(load_profiles)
    /\ saves' = 1
    /\ ncmds' = ncmds + 1
    /\ file_exists' = TRUE
    /\ disk' = write_profiles(mem)
    /\ UNCHANGED inflight

----------------------------------------------------------------------------
(* Commands *)

\* get with every profile shown, whatever names are asked for
display_profiles_all(ps, names) == ps

\* {name: values for name, values in profiles.items() if name in names}
display_profiles(ps, names) ==
    SelectSeq(ps, LAMBDA p : \E i \in 1..Len(names) : names[i] = p[1])

\* prefect profile get [NAMES]..., the argument list drawn from arglists
get_cmd(arglists) ==
    \E args \in arglists :
       \E current \in (IF args = <<>> THEN CurrentNames ELSE {NoName}) :
        LET c == Call("get", NoName, NoName, args, current)
            mem == load_profiles
            names == IF args = <<>> THEN <<current>> ELSE args
        IN  ExitNoSave(c, "ok", mem, Deref(display_profiles(mem.profiles, names), mem.heap))

get ==
    /\ ncmds < MaxCmds
    /\ get_cmd(SeqsUpTo(Names, MaxVars) \cup {<<>>})

\* prefect profile ls, the active profile drawn from currents
ls_cmd(currents) ==
    \E current \in currents :
        LET c == Call("ls", NoName, NoName, <<>>, current)
            mem == load_profiles
        IN  ExitNoSave(c, "ok", mem,
                [i \in 1..Len(mem.profiles) |->
                    [name |-> mem.profiles[i][1],
                     starred |-> (mem.profiles[i][1] = current)]])

ls ==
    /\ ncmds < MaxCmds
    /\ ls_cmd(CurrentNames)

\* variable.split("="): the pieces between the "=" characters
RECURSIVE Split(_)
Split(s) ==
    IF \A i \in 1..Len(s) : s[i] # "="
    THEN <<s>>
    ELSE LET j == CHOOSE i \in 1..Len(s) :
                      s[i] = "=" /\ \A k \in 1..(i - 1) : s[k] # "="
         IN <<SubSeq(s, 1, j - 1)>> \o Split(SubSeq(s, j + 1, Len(s)))

\* the pairs applied last to first, so that the first pair naming a key wins
RECURSIVE SetAll_reversed(_, _)
SetAll_reversed(env, parsed_variables) ==
    IF parsed_variables = <<>> THEN env
    ELSE LET n == Len(parsed_variables)
         IN SetAll_reversed(
                DictSet(env, parsed_variables[n][1], parsed_variables[n][2]),
                SubSeq(parsed_variables, 1, n - 1))

\* for var, value in parsed_variables: env[var] = value
RECURSIVE SetAll(_, _)
SetAll(env, parsed_variables) ==
    IF parsed_variables = <<>> THEN env
    ELSE SetAll(DictSet(env, Head(parsed_variables)[1], Head(parsed_variables)[2]),
                Tail(parsed_variables))

\* set applying each pair as soon as it is parsed: the pairs before a
\* malformed token are already in env when the error is reported
RECURSIVE set_body_eager(_, _)
set_body_eager(env, variables) ==
    IF variables = <<>> THEN [status |-> "ok", env |-> env]
    ELSE IF Len(Split(Head(variables))) # 2
         THEN [status |-> "ParseError", env |-> env]
         ELSE set_body_eager(
                  DictSet(env, Split(Head(variables))[1], Split(Head(variables))[2]),
                  Tail(variables))

\* The body of set after env = profiles[profile.name]: parse every token, then
\* apply every pair.  The result is the error (or "ok") and the settings of
\* the profile as the command leaves them.
set_body(env, variables) ==
    IF \E i \in 1..Len(variables) : Len(Split(variables[i])) # 2
    THEN [status |-> "ParseError", env |-> env]
    ELSE [status |-> "ok",
          env |-> SetAll(env, [i \in 1..Len(variables) |-> Split(variables[i])])]

\* prefect profile set VARIABLES..., the tokens drawn from tokens and the
\* active profile from currents
set_cmd(tokens, currents) ==
    \E variables \in SeqsUpTo(tokens, MaxVars), current \in currents :
        LET c == Call("set", NoName, NoName, variables, current)
            mem == load_profiles
        IN  IF ~DictHas(mem.profiles, current)
            THEN ExitNoSave(c, "KeyError", mem, <<>>)
            ELSE LET env == DictGet(mem.profiles, current)
                     r == set_body(mem.heap[env], variables)
                     mem2 == [profiles |-> mem.profiles,
                              heap |-> [mem.heap EXCEPT ![env] = r.env]]
                 IN IF r.status = "ok"
                    THEN SaveAndExit(c, "", mem2)
                    ELSE ExitNoSave(c, r.status, mem2, <<>>)

\* set that assigns the pairs in every profile of the document
set_every_profile ==
    /\ ncmds < MaxCmds
    /\ \E variables \in SeqsUpTo(Tokens, MaxVars), current \in CurrentNames :
        LET c == Call("set", NoName, NoName, variables, current)
            mem == load_profiles
        IN  IF ~DictHas(mem.profiles, current)
            THEN ExitNoSave(c, "KeyError", mem, <<>>)
            ELSE LET r == set_body(<<>>, variables)
                 IN IF r.status = "ok"
                    THEN SaveAndExit(c, "",
                            [profiles |-> mem.profiles,
                             heap |-> [i \in 1..Len(mem.heap) |->
                                         set_body(mem.heap[i], variables).env]])
                    ELSE ExitNoSave(c, r.status, mem, <<>>)

set ==
    /\ ncmds < MaxCmds
    /\ set_cmd(Tokens, CurrentNames)

\* unset that skips a variable that is not in env (env.pop(var, None))
RECURSIVE unset_body_tolerant(_, _)
unset_body_tolerant(env, variables) ==
    IF variables = <<>> THEN [status |-> "ok", env |-> env]
    ELSE IF ~DictHas(env, Head(variables))
         THEN unset_body_tolerant(env, Tail(variables))
         ELSE unset_body_tolerant(DictPop(env, Head(variables)), Tail(variables))

\* The loop of unset: each variable is checked and popped in turn; the first
\* one that is not in env ends the command with an error.
RECURSIVE unset_body(_, _)
unset_body(env, variables) ==
    IF variables = <<>> THEN [status |-> "ok", env |-> env]
    ELSE IF ~DictHas(env, Head(variables))
         THEN [status |-> "NotFoundError", env |-> env]
         ELSE unset_body(DictPop(env, Head(variables)), Tail(variables))

\* unset with write_profiles called on the error exit as well: the keys popped
\* before the missing one are written to the file
unset_saves_partial ==
    /\ ncmds < MaxCmds
    /\ \E variables \in SeqsUpTo(VarKeys, MaxVars), current \in CurrentNames :
        LET c == Call("unset", NoName, NoName, variables, current)
            mem == load_profiles
        IN  IF ~DictHas(mem.profiles, current)
            THEN ExitNoSave(c, "KeyError", mem, <<>>)
            ELSE LET env == DictGet(mem.profiles, current)
                     r == unset_body(mem.heap[env], variables)
                     mem2 == [profiles |-> mem.profiles,
                              heap |-> [mem.heap EXCEPT ![env] = r.env]]
                 IN IF r.status = "ok"
                    THEN SaveAndExit(c, "", mem2)
                    ELSE ExitNoSave_flush(c, r.status, mem2, <<>>)

\* prefect profile unset VARIABLES...
unset ==
    /\ ncmds < MaxCmds
    /\ \E variables \in SeqsUpTo(VarKeys, MaxVars), current \in CurrentNames :
        LET c == Call("unset", NoName, NoName, variables, current)
            mem == load_profiles
        IN  IF ~DictHas(mem.profiles, current)
            THEN ExitNoSave(c, "KeyError", mem, <<>>)
            ELSE LET env == DictGet(mem.profiles, current)
                     r == unset_body(mem.heap[env], variables)
                     mem2 == [profiles |-> mem.profiles,
                              heap |-> [mem.heap EXCEPT ![env] = r.env]]
                 IN IF r.status = "ok"
                    THEN SaveAndExit(c, "", mem2)
                    ELSE ExitNoSave(c, r.status, mem2, <<>>)

\* create that ignores --from: the new profile always starts empty
create_body_empty(mem, name, from_name) ==
    [profiles |-> DictSet(mem.profiles, name, Len(mem.heap) + 1),
     heap |-> Append(mem.heap, <<>>)]

\* The body of create after the name checks:
\* profiles[name] = profiles[from_name], or profiles[name] = {}
create_body(mem, name, from_name) ==
    IF from_name # NoName
    THEN [profiles |-> DictSet(mem.profiles, name, DictGet(mem.profiles, from_name)),
          heap |-> mem.heap]
    ELSE [profiles |-> DictSet(mem.profiles, name, Len(mem.heap) + 1),
          heap |-> Append(mem.heap, <<>>)]

\* prefect profile create NAME [--from FROM_NAME], the arguments drawn from
\* names and froms
create_cmd(names, froms) ==
    \E name \in names, from_name \in froms :
        LET c == Call("create", name, from_name, <<>>, NoName)
            mem == load_profiles
        IN  IF DictHas(mem.profiles, name)
            THEN ExitNoSave(c, "AlreadyExistsError", mem, <<>>)
            ELSE IF from_name # NoName /\ ~DictHas(mem.profiles, from_name)
            THEN ExitNoSave(c, "NotFoundError", mem, <<>>)
            ELSE SaveAndExit(c, "", create_body(mem, name, from_name))

create ==
    /\ ncmds < MaxCmds
    /\ create_cmd(Names, Names \cup {NoName})

\* rm without the special case for "default"
rm_body_noreset(mem, name) ==
    [verb |-> "Removed", profiles |-> DictPop(mem.profiles, name), heap |-> mem.heap]

\* rm whose reset of "default" replaces the whole document
rm_body_resets_all(mem, name) ==
    IF name = "default"
    THEN [verb |-> "Reset", profiles |-> << <<"default", Len(mem.heap) + 1>> >>,
          heap |-> Append(mem.heap, <<>>)]
    ELSE [verb |-> "Removed", profiles |-> DictPop(mem.profiles, name),
          heap |-> mem.heap]

\* The body of rm after the name check: profiles.pop(name), and for "default"
\* profiles["default"] = {}
rm_body(mem, name) ==
    LET popped == DictPop(mem.profiles, name)
    IN  IF name = "default"
        THEN [verb |-> "Reset",
              profiles |-> DictSet(popped, "default", Len(mem.heap) + 1),
              heap |-> Append(mem.heap, <<>>)]
        ELSE [verb |-> "Removed", profiles |-> popped, heap |-> mem.heap]

\* prefect profile rm NAME
rm ==
    /\ ncmds < MaxCmds
    /\ \E name \in Names :
        LET c == Call("rm", name, NoName, <<>>, NoName)
            mem == load_profiles
        IN  IF ~DictHas(mem.profiles, name)
            THEN ExitNoSave(c, "NotFoundError", mem, <<>>)
            ELSE LET r == rm_body(mem, name)
                 IN SaveAndExit(c, r.verb, [profiles |-> r.profiles, heap |-> r.heap])

\* rename that binds the new name without removing the old one
rename_body_nopop(mem, name, new_name) ==
    [profiles |-> DictSet(mem.profiles, new_name, DictGet(mem.profiles, name)),
     heap |-> mem.heap]

\* rename that keeps the renamed profile at its position in the document
rename_body_inplace(mem, name, new_name) ==
    [profiles |-> [mem.profiles EXCEPT ![DictIndex(mem.profiles, name)] =
                      <<new_name, DictGet(mem.profiles, name)>>],
     heap |-> mem.heap]

\* The body of rename after the name checks:
\* profiles[new_name] = profiles.pop(name)
rename_body(mem, name, new_name) ==
    [profiles |-> DictSet(DictPop(mem.profiles, name), new_name,
                          DictGet(mem.profiles, name)),
     heap |-> mem.heap]

\* prefect profile rename NAME NEW_NAME, both names drawn from names
rename_cmd(names) ==
    \E name \in names, new_name \in names :
        LET c == Call("rename", name, new_name, <<>>, NoName)
            mem == load_profiles
        IN  IF ~DictHas(mem.profiles, name)
            THEN ExitNoSave(c, "NotFoundError", mem, <<>>)
            ELSE IF DictHas(mem.profiles, new_name)
            THEN ExitNoSave(c, "AlreadyExistsError", mem, <<>>)
            ELSE SaveAndExit(c, "", rename_body(mem, name, new_name))

rename ==
    /\ ncmds < MaxCmds
    /\ rename_cmd(Names)

----------------------------------------------------------------------------

\* Python's order on the characters used here (code point order)
Alphabet == <<"1", "2", "3", "=", "A", "B">>

CharLess(a, b) ==
    \E i, j \in 1..Len(Alphabet) : Alphabet[i] = a /\ Alphabet[j] = b /\ i < j

\* s < t on strings
RECURSIVE StrLess(_, _)
StrLess(s, t) ==
    IF t = <<>> THEN FALSE
    ELSE IF s = <<>> THEN TRUE
    ELSE IF Head(s) = Head(t) THEN StrLess(Tail(s), Tail(t))
    ELSE CharLess(Head(s), Head(t))

\* the items left in the order of the dict
sorted_not(items) == items

\* sorted(d.items()): the items in ascending key order
RECURSIVE sorted(_)
sorted(items) ==
    IF items = <<>> THEN <<>>
    ELSE LET m == CHOOSE i \in 1..Len(items) :
                      \A j \in 1..Len(items) :
                          j # i => StrLess(items[i][1], items[j][1])
         IN <<items[m]>> \o sorted(DictPop(items, items[m][1]))

\* d.get(key): None when the key is absent
None == <<"None">>
DictGetOrNone(d, k) == IF DictHas(d, k) THEN DictGet(d, k) ELSE None

\* {key: val for key, val in settings.items() if val != default_settings[key]}
overrides(settings, default_settings) ==
    SelectSeq(settings, LAMBDA kv : kv[2] # DictGet(default_settings, kv[1]))

\* inspect attributing an entry to the environment whenever the environment
\* overrides the key, whatever value it gives it
inspect_output_anyenv(name, current_settings, default_settings, env_settings, show_defaults, show_sources) ==
    LET env_overrides == overrides(env_settings, default_settings)
        current_overrides == overrides(current_settings, default_settings)
        line(kv) ==
            [kind |-> "setting", key |-> kv[1], value |-> kv[2],
             source |-> IF ~show_sources THEN ""
                        ELSE IF DictHas(env_overrides, kv[1])
                             THEN "env" ELSE "profile"]
        defline(kv) ==
            [kind |-> "setting", key |-> kv[1], value |-> kv[2],
             source |-> IF show_sources THEN "defaults" ELSE ""]
        defs == sorted(default_settings)
    IN  << [kind |-> "profile", name |-> name] >>
        \o [i \in 1..Len(current_overrides) |-> line(current_overrides[i])]
        \o (IF show_defaults THEN [i \in 1..Len(defs) |-> defline(defs[i])]
            ELSE <<>>)

\* The lines inspect prints, after the settings at each level are known
inspect_output(name, current_settings, default_settings, env_settings, show_defaults, show_sources) ==
    LET env_overrides == overrides(env_settings, default_settings)
        current_overrides == overrides(current_settings, default_settings)
        line(kv) ==
            [kind |-> "setting", key |-> kv[1], value |-> kv[2],
             source |-> IF ~show_sources THEN ""
                        ELSE IF kv[2] = DictGetOrNone(env_overrides, kv[1])
                             THEN "env" ELSE "profile"]
        defline(kv) ==
            [kind |-> "setting", key |-> kv[1], value |-> kv[2],
             source |-> IF show_sources THEN "defaults" ELSE ""]
        defs == sorted(default_settings)
    IN  << [kind |-> "profile", name |-> name] >>
        \o [i \in 1..Len(current_overrides) |-> line(current_overrides[i])]
        \o (IF show_defaults THEN [i \in 1..Len(defs) |-> defline(defs[i])]
            ELSE <<>>)

\* The settings the collaborators return: the defaults of the settings
\* registry, the settings of the environment, and the resolved settings of
\* the active profile
Registry ==
    { [default_settings |-> << <<KeyB, <<"1">>>>, <<KeyA, <<"1">>>> >>,
       env_settings     |-> << <<KeyB, <<"1">>>>, <<KeyA, <<"1">>>> >>,
       context_settings |-> << <<KeyB, <<"1">>>>, <<KeyA, <<"1">>>> >>],
      [default_settings |-> << <<KeyB, <<"1">>>>, <<KeyA, <<"1">>>> >>,
       env_settings     |-> << <<KeyB, <<"1">>>>, <<KeyA, <<"2">>>> >>,
       context_settings |-> << <<KeyB, <<"2">>>>, <<KeyA, <<"2">>>> >>],
      [default_settings |-> << <<KeyA, <<"1">>>> >>,
       env_settings     |-> << <<KeyA, <<"1">>>> >>,
       context_settings |-> << <<KeyA, <<"2">>>> >>] }

\* prefect profile inspect [NAME] [--show-defaults] [--show-sources], the
\* settings of the collaborators drawn from regs
inspect_cmd(regs) ==
    \E name \in Names \cup {NoName}, show_defaults \in BOOLEAN,
          show_sources \in BOOLEAN, reg \in regs :
       \E current \in (IF name = NoName THEN CurrentNames ELSE {NoName}) :
        LET c == InspectCall(name, current, show_defaults, show_sources, reg)
            \* load_profiles() is called only when a name is given
            mem == IF name # NoName THEN load_profiles
                   ELSE [profiles |-> <<>>, heap |-> <<>>]
        IN  IF name # NoName /\ ~DictHas(mem.profiles, name)
            THEN ExitNoSave(c, "NotFoundError", mem, <<>>)
            ELSE LET shown == IF name # NoName THEN name ELSE current
                     current_settings ==
                         IF name # NoName
                         THEN mem.heap[DictGet(mem.profiles, name)]
                         ELSE reg.context_settings
                 IN IF \E k \in DictKeys(reg.env_settings) \cup DictKeys(current_settings) :
                          ~DictHas(reg.default_settings, k)
                    THEN ExitNoSave(c, "KeyError", mem, <<>>)
                    ELSE ExitNoSave(c, "ok", mem,
                            inspect_output(shown, current_settings,
                                reg.default_settings, reg.env_settings,
                                show_defaults, show_sources))

inspect ==
    /\ ncmds < MaxCmds
    /\ inspect_cmd(Registry)

----------------------------------------------------------------------------

\* The documents a behaviour starts from: no backing file yet, or a file that
\* earlier commands wrote (create work; set on default and on work)
InitDocs ==
    { <<>>,
      << <<"default", << <<KeyA, <<"1">>>>, <<KeyB, <<"2">>>> >> >>,
         <<"work", << <<KeyB, <<"1">>>> >> >> >> }

Init ==
    /\ disk \in InitDocs
    /\ file_exists = (disk # <<>>)
    /\ profiles = <<>>
    /\ heap = <<>>
    /\ call = Call("", NoName, NoName, <<>>, NoName)
    /\ status = ""
    /\ verb = ""
    /\ output = <<>>
    /\ pre = <<>>
    /\ saves = 0
    /\ ncmds = 0
    /\ inflight = [p \in Procs |-> Idle]

Next ==
    \/ get
    \/ ls
    \/ set
    \/ unset
    \/ create
    \/ rm
    \/ rename
    \/ inspect

Spec == Init /\ [][Next]_vars

----------------------------------------------------------------------------
(* inspect alone, over more settings: profiles whose keys come in either     *)
(* order, a registry whose defaults are not in key order or lack a key, and  *)
(* environments that lack a key, agree with the profile or differ from it    *)

A1 == <<KeyA, <<"1">>>>
A2 == <<KeyA, <<"2">>>>
A3 == <<KeyA, <<"3">>>>
B1 == <<KeyB, <<"1">>>>
B2 == <<KeyB, <<"2">>>>

InspectSettings == { <<>>, <<A2>>, <<B1>>, <<B2, A2>>, <<A2, B2>>, <<A1, B2>>, <<A3, B2>> }

\* The collaborators know the same keys: the settings of the environment and
\* of the active profile have no key without a default.  Only a profile of
\* the file can hold such a key.
InspectRegistry ==
    { r \in [default_settings : { <<B1, A1>>, <<A1>> },
             env_settings     : { <<>>, <<B1, A1>>, <<B1, A2>>, <<B2, A2>>, <<A2>> },
             context_settings : { <<B2, A2>>, <<A2, B1>>, <<A1, B1>>, <<A2>> }] :
        /\ DictKeys(r.env_settings) \subseteq DictKeys(r.default_settings)
        /\ DictKeys(r.context_settings) \subseteq DictKeys(r.default_settings) }

InspectInit ==
    /\ \E settings \in InspectSettings : disk = << <<"default", settings>> >>
    /\ file_exists = TRUE
    /\ profiles = <<>>
    /\ heap = <<>>
    /\ call = Call("", NoName, NoName, <<>>, NoName)
    /\ status = ""
    /\ verb = ""
    /\ output = <<>>
    /\ pre = <<>>
    /\ saves = 0
    /\ ncmds = 0
    /\ inflight = [p \in Procs |-> Idle]

InspectNext == ncmds < MaxCmds /\ inspect_cmd(InspectRegistry)

SpecInspect == InspectInit /\ [][InspectNext]_vars

----------------------------------------------------------------------------
(* Two invocations on the same backing file.  An invocation reads the file   *)
(* once, in load_profiles(), and writes it once, in write_profiles(); what   *)
(* it does in between is local to it.  Each invocation runs set or rm.       *)

RaceTokens == { <<"A", "=", "1">>, <<"B", "=", "1">> }

RaceCalls ==
    { Call("set", NoName, NoName, vs, cur) :
          vs \in SeqsUpTo(RaceTokens, MaxVars), cur \in CurrentNames }
    \cup { Call("rm", n, NoName, <<>>, NoName) : n \in Names }

\* The command c from load_profiles() up to its write_profiles() call or its
\* error exit: the status, the verb and the loaded document as transformed
race_transform(c, mem) ==
    IF c.op = "set"
    THEN IF ~DictHas(mem.profiles, c.current)
         THEN [status |-> "KeyError", verb |-> "", mem |-> mem]
         ELSE LET env == DictGet(mem.profiles, c.current)
                  r == set_body(mem.heap[env], c.variables)
              IN [status |-> r.status, verb |-> "",
                  mem |-> [profiles |-> mem.profiles,
                           heap |-> [mem.heap EXCEPT ![env] = r.env]]]
    ELSE IF ~DictHas(mem.profiles, c.name)
         THEN [status |-> "NotFoundError", verb |-> "", mem |-> mem]
         ELSE LET r == rm_body(mem, c.name)
              IN [status |-> "ok", verb |-> r.verb,
                  mem |-> [profiles |-> r.profiles, heap |-> r.heap]]

\* Invocation p starts: it loads the file and runs up to write_profiles()
race_load(p) ==
    /\ inflight[p].pc = "idle"
    /\ \E c \in RaceCalls :
        LET mem == load_profiles
            r == race_transform(c, mem)
        IN  IF r.status = "ok"
            THEN /\ inflight' = [inflight EXCEPT ![p] =
                        [pc |-> "loaded", call |-> c, verb |-> r.verb,
                         loaded |-> write_profiles(mem), mem |-> r.mem]]
                 /\ UNCHANGED <<file_exists, disk, profiles, heap, call, status,
                                verb, output, pre, saves, ncmds>>
            ELSE /\ inflight' = [inflight EXCEPT ![p] = [pc |-> "failed"]]
                 /\ call' = c
                 /\ status' = r.status
                 /\ verb' = ""
                 /\ output' = <<>>
                 /\ profiles' = r.mem.profiles
                 /\ heap' = r.mem.heap
                 /\ pre' = write_profiles(mem)
                 /\ saves' = 0
                 /\ ncmds' = ncmds + 1
                 /\ UNCHANGED <<file_exists, disk>>

\* The profile the command works on
Target(c) == IF c.op = "set" THEN c.current ELSE c.name

\* A save that patches the file in place: only the profile the command
\* worked on is written over what the file holds now
race_save_patch(p) ==
    /\ inflight[p].pc = "loaded"
    /\ LET f == inflight[p]
           doc == write_profiles(f.mem)
           t == Target(f.call)
       IN /\ disk' = IF DictHas(doc, t) THEN DictSet(disk, t, DictGet(doc, t))
                     ELSE IF DictHas(disk, t) THEN DictPop(disk, t) ELSE disk
          /\ file_exists' = TRUE
          /\ call' = f.call
          /\ status' = "ok"
          /\ verb' = f.verb
          /\ output' = <<>>
          /\ profiles' = f.mem.profiles
          /\ heap' = f.mem.heap
          /\ pre' = f.loaded
          /\ saves' = 1
          /\ ncmds' = ncmds + 1
          /\ inflight' = [inflight EXCEPT ![p] = [pc |-> "saved", call |-> f.call,
                                                  loaded |-> f.loaded,
                                                  wrote |-> write_profiles(f.mem)]]

\* Invocation p finishes: write_profiles(profiles) writes its whole document
\* over the file, and the command exits with success
race_save(p) ==
    /\ inflight[p].pc = "loaded"
    /\ LET f == inflight[p]
       IN /\ disk' = write_profiles(f.mem)
          /\ file_exists' = TRUE
          /\ call' = f.call
          /\ status' = "ok"
          /\ verb' = f.verb
          /\ output' = <<>>
          /\ profiles' = f.mem.profiles
          /\ heap' = f.mem.heap
          /\ pre' = f.loaded
          /\ saves' = 1
          /\ ncmds' = ncmds + 1
          /\ inflight' = [inflight EXCEPT ![p] = [pc |-> "saved", call |-> f.call,
                                                  loaded |-> f.loaded,
                                                  wrote |-> write_profiles(f.mem)]]

RaceLoad == \E p \in Procs : race_load(p)
RaceSave == \E p \in Procs : race_save(p)

RaceNext ==
    \/ RaceLoad
    \/ RaceSave

SpecRace == Init /\ [][RaceNext]_vars

----------------------------------------------------------------------------
(* The end-to-end scenario: longer runs of create, set, rename, get and ls   *)
(* from the document {"default": {}}, with the active profile "work" for set *)

MaxScenarioCmds == 4

ScenarioNames == {"work", "job"}
ScenarioTokens == { <<"A", "=", "1">>, <<"B", "=", "1">> }

ScenarioInit ==
    /\ disk = << <<"default", <<>>>> >>
    /\ file_exists = TRUE
    /\ profiles = <<>>
    /\ heap = <<>>
    /\ call = Call("", NoName, NoName, <<>>, NoName)
    /\ status = ""
    /\ verb = ""
    /\ output = <<>>
    /\ pre = <<>>
    /\ saves = 0
    /\ ncmds = 0
    /\ inflight = [p \in Procs |-> Idle]

scenario_create == ncmds < MaxScenarioCmds /\ create_cmd(ScenarioNames, {NoName})
scenario_set == ncmds < MaxScenarioCmds /\ set_cmd(ScenarioTokens, {"work"})
scenario_rename == ncmds < MaxScenarioCmds /\ rename_cmd(Names)
scenario_get == ncmds < MaxScenarioCmds /\ get_cmd({ <<n>> : n \in ScenarioNames })
scenario_ls == ncmds < MaxScenarioCmds /\ ls_cmd({"default"})

ScenarioNext ==
    \/ scenario_create
    \/ scenario_set
    \/ scenario_rename
    \/ scenario_get
    \/ scenario_ls

SpecScenario == ScenarioInit /\ [][ScenarioNext]_vars

----------------------------------------------------------------------------
(* Properties *)

\* The loaded document of the last command, by value, as the command left it
Mem == Deref(profiles, heap)

Mutators == {"set", "unset", "create", "rm", "rename"}

\* The backing file is as the last command found it
FileUntouched == saves = 0 /\ (file_exists => disk = pre)

\* The other profiles of the loaded document are in d with the same settings
OthersKept(d, names) ==
    \A n \in DictKeys(pre) \ names : DictHas(d, n) /\ DictGet(d, n) = DictGet(pre, n)

\* C1 (as stated): the document in the backing file always contains a profile
\* named "default", whatever successful mutations have run.
C1_DefaultAlwaysPresent == file_exists => DictHas(disk, "default")

\* C1 (amended): a successful create, set, unset or rm, and a successful
\* rename of a profile other than "default", run on a document that contains
\* "default", leaves a document that contains "default".
C1_DefaultKeptUnlessRenamed ==
    ( /\ call.op \in Mutators
      /\ status = "ok"
      /\ DictHas(pre, "default")
      /\ ~(call.op = "rename" /\ call.name = "default") )
    => (file_exists /\ DictHas(disk, "default"))

C1_Witness ==
    /\ call.op = "rm" /\ call.name = "default" /\ status = "ok"
    /\ DictGet(pre, "default") # <<>>
    /\ DictHas(disk, "default")

\* C2: rm of "default" succeeds with verb "Reset" and leaves "default" present
\* and empty; rm of any other existing name succeeds with verb "Removed" and
\* the name is absent afterwards; every other profile keeps its settings.
C2_RemoveResetsDefault ==
    (call.op = "rm" /\ DictHas(pre, call.name))
    => /\ status = "ok"
       /\ call.name = "default" =>
            /\ verb = "Reset"
            /\ DictHas(disk, "default")
            /\ DictGet(disk, "default") = <<>>
       /\ call.name # "default" =>
            /\ verb = "Removed"
            /\ ~DictHas(disk, call.name)
       /\ OthersKept(disk, {call.name})
       /\ DictKeys(disk) \subseteq DictKeys(pre)

C2_Witness ==
    /\ call.op = "rm" /\ call.name = "default" /\ verb = "Reset"
    /\ DictGet(pre, "default") # <<>>
    /\ \E n \in DictKeys(pre) \ {"default"} :
          DictGet(pre, n) # <<>> /\ DictGet(disk, n) = DictGet(pre, n)

\* C3: in the document create --from produces, inserting, overwriting or
\* removing a key in one of the two profiles does not change the settings of
\* the other.
C3_CreateCopyIndependent ==
    (call.op = "create" /\ status = "ok" /\ call.other # NoName)
    => \A a \in {call.name, call.other} :
         LET b == IF a = call.name THEN call.other ELSE call.name
             ref == DictGet(profiles, a)
         IN /\ \A k \in VarKeys, v \in {<<"1">>, <<"2">>} :
                 DictGet(Deref(profiles, [heap EXCEPT ![ref] = DictSet(@, k, v)]), b)
                    = DictGet(Mem, b)
            /\ \A k \in DictKeys(heap[ref]) :
                 DictGet(Deref(profiles, [heap EXCEPT ![ref] = DictPop(@, k)]), b)
                    = DictGet(Mem, b)

\* Number of "=" characters of a token
CountEq(token) == Cardinality({ i \in 1..Len(token) : token[i] = "=" })

\* C4: when a token of set's input does not hold exactly one "=", the command
\* fails and no pair is applied: the loaded document and the backing file
\* are unchanged.
C4_SetAllOrNothing ==
    (call.op = "set" /\ \E i \in 1..Len(call.variables) : CountEq(call.variables[i]) # 1)
    => /\ status # "ok"
       /\ DictHas(pre, call.current) => status = "ParseError"
       /\ Mem = pre
       /\ FileUntouched

C4_Witness ==
    /\ call.op = "set" /\ status = "ParseError"
    /\ Len(call.variables) = 2
    /\ CountEq(call.variables[1]) = 1
    /\ CountEq(call.variables[2]) # 1
    /\ DictGetOrNone(DictGet(pre, call.current), <<call.variables[1][1]>>)
          # <<call.variables[1][3]>>

\* C5: when unset fails because a requested key is absent from the profile,
\* every requested key that was present before the call is still present in
\* the loaded document with its value.
C5_UnsetNoPartialMutation ==
    ( /\ call.op = "unset" /\ status = "NotFoundError"
      /\ \E i \in 1..Len(call.variables) :
            ~DictHas(DictGet(pre, call.current), call.variables[i]) )
    => \A i \in 1..Len(call.variables) :
          LET k == call.variables[i]
              before == DictGet(pre, call.current)
              after == DictGet(Mem, call.current)
          IN DictHas(before, k) => (DictHas(after, k) /\ DictGet(after, k) = DictGet(before, k))

\* C6: the backing file is written only by a mutating command that succeeds,
\* exactly once, and with the document as the command finally left it; every
\* error exit and every read-only command leaves the file as it was.
C6_SaveOnlyOnSuccess ==
    call.op # ""
    => /\ saves \in {0, 1}
       /\ saves = 1 <=> (status = "ok" /\ call.op \in Mutators)
       /\ saves = 1 => (file_exists /\ disk = Mem)
       /\ saves = 0 => FileUntouched

C6_Witness ==
    /\ call.op = "unset" /\ status = "NotFoundError"
    /\ Mem # pre
    /\ file_exists /\ disk = pre

\* The names get was asked for
Requested ==
    IF call.variables = <<>> THEN {call.current}
    ELSE { call.variables[i] : i \in 1..Len(call.variables) }

\* C7 (as stated): get fails with NotFoundError whenever a requested name is
\* not a profile of the document.
C7_GetFailsOnMissingName ==
    (call.op = "get" /\ \E n \in Requested : ~DictHas(pre, n))
    => status = "NotFoundError"

\* C7 (amended): get never fails; it returns exactly the profiles of the
\* document whose name is requested, with their settings and in storage
\* order, and leaves out every requested name that is absent.
C7_GetFiltersMissingNames ==
    call.op = "get"
    => /\ status = "ok"
       /\ DictKeys(output) = Requested \cap DictKeys(pre)
       /\ Len(output) = Cardinality(DictKeys(output))
       /\ \A i \in 1..Len(output) : output[i][2] = DictGet(pre, output[i][1])
       /\ \A i, j \in 1..Len(output) :
            i < j => DictIndex(pre, output[i][1]) < DictIndex(pre, output[j][1])

C7_Witness ==
    /\ call.op = "get" /\ status = "ok"
    /\ \E n \in Requested : ~DictHas(pre, n)
    /\ \E n \in Requested : DictHas(pre, n) /\ DictGet(pre, n) # <<>>
    /\ Len(output) = 1
    /\ Len(pre) = 2

\* C8: create fails with AlreadyExistsError when the name is a profile and
\* with NotFoundError when from_name is given but absent, leaving the document
\* unchanged; otherwise it adds exactly the profile `name`, with from_name's
\* settings (empty without from_name), and leaves every other profile alone.
C8_CreateNeverOverwrites ==
    call.op = "create"
    => IF DictHas(pre, call.name)
       THEN status = "AlreadyExistsError" /\ Mem = pre /\ FileUntouched
       ELSE IF call.other # NoName /\ ~DictHas(pre, call.other)
       THEN status = "NotFoundError" /\ Mem = pre /\ FileUntouched
       ELSE /\ status = "ok"
            /\ DictKeys(disk) = DictKeys(pre) \cup {call.name}
            /\ Len(disk) = Len(pre) + 1
            /\ DictGet(disk, call.name) =
                  (IF call.other # NoName THEN DictGet(pre, call.other) ELSE <<>>)
            /\ OthersKept(disk, {})

C8_Witness ==
    /\ call.op = "create" /\ status = "ok"
    /\ call.other # NoName
    /\ DictGet(disk, call.name) # <<>>
    /\ Len(disk) = 3

\* C9: rename fails with NotFoundError when `name` is absent, and with
\* AlreadyExistsError when `name` is present and `new_name` is present
\* (new_name = name included), leaving the document unchanged; otherwise
\* new_name has the settings name had, name is absent, the number of profiles
\* is unchanged and every other profile keeps its settings.
C9_RenameMovesSettings ==
    call.op = "rename"
    => IF ~DictHas(pre, call.name)
       THEN status = "NotFoundError" /\ Mem = pre /\ FileUntouched
       ELSE IF DictHas(pre, call.other)
       THEN status = "AlreadyExistsError" /\ Mem = pre /\ FileUntouched
       ELSE /\ status = "ok"
            /\ DictHas(disk, call.other)
            /\ DictGet(disk, call.other) = DictGet(pre, call.name)
            /\ ~DictHas(disk, call.name)
            /\ Len(disk) = Len(pre)
            /\ Cardinality(DictKeys(disk)) = Len(disk)
            /\ OthersKept(disk, {call.name})

C9_Witness ==
    /\ call.op = "rename" /\ status = "ok"
    /\ DictGet(disk, call.other) # <<>>
    /\ \E n \in DictKeys(disk) \ {call.other} : DictGet(disk, n) # <<>>

\* The last pair of set's input that names key k (tokens are VAR=VAL with a
\* one-character VAR and VAL)
LastPair(k) ==
    CHOOSE i \in 1..Len(call.variables) :
        /\ <<call.variables[i][1]>> = k
        /\ \A j \in (i + 1)..Len(call.variables) : <<call.variables[j][1]>> # k

\* C10: after a successful set, every key named in the pairs has the value of
\* the last pair that names it, every other key of the profile keeps its
\* value, and every other profile is unchanged.
C10_SetLastWriteWins ==
    (call.op = "set" /\ status = "ok")
    => LET named == { <<call.variables[i][1]>> : i \in 1..Len(call.variables) }
           before == DictGet(pre, call.current)
           after == DictGet(disk, call.current)
       IN /\ DictKeys(after) = DictKeys(before) \cup named
          /\ \A k \in named : DictGet(after, k) = <<call.variables[LastPair(k)][3]>>
          /\ \A k \in DictKeys(before) \ named : DictGet(after, k) = DictGet(before, k)
          /\ OthersKept(disk, {call.current})
          /\ DictKeys(disk) = DictKeys(pre)

C10_Witness ==
    /\ call.op = "set" /\ status = "ok"
    /\ Len(call.variables) = 2
    /\ call.variables[1][1] = call.variables[2][1]
    /\ call.variables[1][3] # call.variables[2][3]
    /\ \E k \in DictKeys(DictGet(pre, call.current)) :
          <<call.variables[1][1]>> # k
    /\ Len(pre) = 2

\* The profile names of a document, in storage order
NamesOf(d) == [i \in 1..Len(d) |-> d[i][1]]

\* C11: ls lists the profile names in storage order; create and rename put
\* the new name after all existing names and keep the order of the others;
\* set on an empty profile with distinct keys stores exactly the pairs, in
\* input order; get of one present name returns that profile alone.  So
\* from {"default": {}}, create(n), set on n, rename(n, m) gives
\* get([m]) = {m: the pairs set} and the names ["default", m].
C11_StorageOrder ==
    /\ (call.op = "create" /\ status = "ok")
          => NamesOf(disk) = Append(NamesOf(pre), call.name)
    /\ (call.op = "rename" /\ status = "ok")
          => NamesOf(disk) =
                Append(SelectSeq(NamesOf(pre), LAMBDA n : n # call.name), call.other)
    /\ call.op = "ls"
          => [i \in 1..Len(output) |-> output[i].name] = NamesOf(pre)
    /\ (call.op = "get" /\ Len(call.variables) = 1 /\ DictHas(pre, call.variables[1]))
          => output = << <<call.variables[1], DictGet(pre, call.variables[1])>> >>
    /\ ( /\ call.op = "set" /\ status = "ok"
         /\ DictGet(pre, call.current) = <<>>
         /\ \A i, j \in 1..Len(call.variables) :
               i # j => call.variables[i][1] # call.variables[j][1] )
          => DictGet(disk, call.current) =
                [i \in 1..Len(call.variables) |->
                    << <<call.variables[i][1]>>, <<call.variables[i][3]>> >>]

C11_Witness ==
    /\ call.op = "get" /\ call.variables = <<"job">>
    /\ NamesOf(pre) = <<"default", "job">>
    /\ DictGet(pre, "default") = <<>>
    /\ output = << <<"job", << <<KeyA, <<"1">>>>, <<KeyB, <<"1">>>> >> >> >>

\* C12: rm of "default" leaves the document as it was, in the same order,
\* with only the settings of "default" emptied.
C12_ResetKeepsOrder ==
    (call.op = "rm" /\ call.name = "default" /\ status = "ok")
    => /\ NamesOf(disk) = NamesOf(pre)
       /\ disk = [pre EXCEPT ![DictIndex(pre, "default")] = <<"default", <<>>>>]

\* C18: unset succeeds exactly when every requested key is in the profile
\* and no key is listed twice; it then removes exactly the requested keys and
\* changes nothing else; a request that lists a present key twice fails as
\* not found and the file is not written.
C18_UnsetExactlyRequested ==
    (call.op = "unset" /\ DictHas(pre, call.current))
    => LET before == DictGet(pre, call.current)
           vs == call.variables
           req == { vs[i] : i \in 1..Len(vs) }
           nodup == \A i, j \in 1..Len(vs) : i # j => vs[i] # vs[j]
       IN /\ status = "ok" <=> (req \subseteq DictKeys(before) /\ nodup)
          /\ status = "ok" =>
                /\ DictGet(disk, call.current)
                      = SelectSeq(before, LAMBDA kv : kv[1] \notin req)
                /\ OthersKept(disk, {call.current})
                /\ NamesOf(disk) = NamesOf(pre)
          /\ status # "ok" => (status = "NotFoundError" /\ FileUntouched)

C18_Witness ==
    /\ call.op = "unset" /\ status = "NotFoundError"
    /\ Len(call.variables) = 2
    /\ call.variables[1] = call.variables[2]
    /\ DictHas(DictGet(pre, call.current), call.variables[1])
    /\ file_exists /\ disk = pre

\* C19: a profile created with --from is saved with the settings of its
\* source, by value, and a later set or unset command changes the saved
\* settings of no profile other than the active one: the two evolve
\* independently.
C19_CopiesEvolveIndependently ==
    /\ (call.op = "create" /\ status = "ok" /\ call.other # NoName)
          => /\ DictGet(disk, call.name) = DictGet(pre, call.other)
             /\ DictGet(disk, call.other) = DictGet(pre, call.other)
    /\ (call.op \in {"set", "unset"} /\ file_exists)
          => \A n \in DictKeys(pre) \ {call.current} :
                DictHas(disk, n) /\ DictGet(disk, n) = DictGet(pre, n)

C19_Witness ==
    /\ call.op \in {"set", "unset"} /\ status = "ok"
    /\ DictHas(pre, "job")
    /\ DictGet(pre, "job") = DictGet(pre, call.current)
    /\ DictGet(pre, "job") # <<>>
    /\ DictGet(disk, call.current) # DictGet(pre, call.current)
    /\ DictGet(disk, "job") = DictGet(pre, "job")

\* The settings the last inspect displayed, and whether it got as far as
\* comparing them with the defaults
InspectRan == call.op = "inspect" /\ (call.name = NoName \/ DictHas(pre, call.name))
Current == IF call.name # NoName THEN DictGet(pre, call.name)
           ELSE call.registry.context_settings
Defaults == call.registry.default_settings
Env == call.registry.env_settings

\* The keys of the displayed settings whose value differs from their default
Differing ==
    SelectSeq(Current, LAMBDA kv : DictHas(Defaults, kv[1])
                                   /\ kv[2] # DictGet(Defaults, kv[1]))

\* The lines of the listing between the profile-name line and the defaults
ShownDefaults == IF call.show_defaults /\ output # <<>> THEN Len(Defaults) ELSE 0
OverrideLines == SubSeq(output, 2, Len(output) - ShownDefaults)

\* C13: inspect emits exactly one entry for each key of the current settings
\* whose value differs from the key's default, none for a key whose value
\* equals its default, in the iteration order of the current settings.
C13_OverridesExact ==
    InspectRan
    => LET shown == SelectSeq(OverrideLines, LAMBDA l : DictHas(Defaults, l.key))
       IN [i \in 1..Len(shown) |-> <<shown[i].key, shown[i].value>>] = Differing

C15_UnknownKeyEmitted ==
    InspectRan
    => /\ status = "ok"
       /\ \A k \in DictKeys(Current) \ DictKeys(Defaults) :
             \E i \in 1..Len(OverrideLines) : OverrideLines[i].key = k

\* C16: the listing starts with the one profile-name line, the override
\* entries follow, and with --show-defaults every default key follows them
\* exactly once, in ascending key order; without it no default is listed.
C16_DefaultsSortedLast ==
    (InspectRan /\ status = "ok")
    => LET n == Len(output)
           d == ShownDefaults
       IN /\ output[1] = [kind |-> "profile",
                          name |-> IF call.name # NoName THEN call.name ELSE call.current]
          /\ \A i \in 2..n : output[i].kind = "setting"
          /\ n = 1 + Len(Differing) + d
          /\ \A i \in 2..(n - d) :
                output[i].key = Differing[i - 1][1] /\ output[i].source # "defaults"
          /\ { output[i].key : i \in (n - d + 1)..n } = (IF d = 0 THEN {} ELSE DictKeys(Defaults))
          /\ \A i \in (n - d + 1)..n :
                /\ output[i].value = DictGet(Defaults, output[i].key)
                /\ call.show_sources => output[i].source = "defaults"
                /\ \A j \in (i + 1)..n :
                      output[i].key = KeyA /\ output[j].key = KeyB

C16_Witness ==
    /\ InspectRan /\ status = "ok" /\ call.show_defaults
    /\ Defaults[1][1] = KeyB
    /\ Len(output) = 4
    /\ output[2].key = KeyB
    /\ output[3].key = KeyA /\ output[4].key = KeyB

\* C17: when two invocations interleave their loads and saves, the file after
\* a save holds exactly the whole document the saving command computed from
\* the document it loaded: the profile it worked on as it left it, and every
\* other profile as it loaded it, whatever the other invocation wrote.
C17_LastWriterWins ==
    (call.op \in {"set", "rm"} /\ status = "ok")
    => /\ saves = 1
       /\ file_exists
       /\ disk = Mem
       /\ OthersKept(disk, {Target(call)})
       /\ DictKeys(disk) \subseteq DictKeys(pre)
       /\ call.op = "rm" =>
             IF call.name = "default" THEN DictGet(disk, "default") = <<>>
             ELSE ~DictHas(disk, call.name)
       /\ call.op = "set" =>
             DictGet(disk, call.current)
                = SetAll(DictGet(pre, call.current),
                         [i \in 1..Len(call.variables) |->
                             << <<call.variables[i][1]>>, <<call.variables[i][3]>> >>])

\* Both invocations loaded the same document, worked on different profiles
\* and saved: the file holds the document of the second one to save, without
\* the change of the first.
C17_Witness ==
    /\ \A p \in Procs : inflight[p].pc = "saved"
    /\ inflight["p"].loaded = inflight["q"].loaded
    /\ Target(inflight["p"].call) # Target(inflight["q"].call)
    /\ inflight["p"].call.op = "set" /\ inflight["q"].call.op = "set"
    /\ call = inflight["q"].call
    /\ inflight["p"].wrote # inflight["p"].loaded
    /\ disk = inflight["q"].wrote
    /\ disk # pre
    /\ DictGet(disk, Target(inflight["p"].call)) = DictGet(pre, Target(inflight["p"].call))

====
